---------------------------- MODULE Spec2Model ----------------------------
(***************************************************************************)
(* diet-agent: the Streamlit chat client (src/diet-app.py) and the loading *)
(* of the agent definitions (src/agent.py), as state machines.             *)
(*                                                                         *)
(* Conventions of the translation                                          *)
(*  - a Python str is a sequence of string fragments; an f-string and +    *)
(*    are concatenation (\o); "" is <<>>; str(n) is ToString(n).           *)
(*  - a Python dict is a function; `k in d` is k \in DOMAIN d and          *)
(*    d.get(k, default) is Get(d, k, default).                             *)
(*  - an optional value is a sequence of length 0 (None) or 1.             *)
(*  - an exception is a record carrying the names of its class and of all  *)
(*    its base classes (mro); an except clause catches it when the         *)
(*    clause's class is among them.                                        *)
(***************************************************************************)
EXTENDS Integers, Sequences, FiniteSets, TLC

VARIABLES
    \* ---- src/diet-app.py : one browser session of the chat client ----
    pc,             \* position of the script run ("wait": between two runs)
    event,          \* the widget interaction that triggered the current run
    logged_in,      \* st.user.is_logged_in
    session_state,  \* st.session_state: a dict, keys added as the script sets them
    widgets,        \* widgets rendered so far by the current (or last) run
    errors,         \* st.error texts shown by the current (or last) run
    exc,            \* exception that ended the last run uncaught ("" if none)
    clock,          \* time.time(), in ticks of 1/TicksPerSecond second
    response,       \* outcome of the POST /run that send_message is blocked in
    made_ids,       \* history: the identifiers create_session has generated
    last_create,    \* history: the last create_session call of the current run
    turn,           \* history: the send_message call of the current run
    \* ---- src/agent.py : import of the agent module, then tool calls ----
    apc,            \* position of the module's top-level code
    agents,         \* module globals holding agents: name -> None or the agent
    log,            \* lines printed by the module
    load_exc,       \* exception that escaped the module's top-level code
    ctor_raised,    \* history: the guarded constructions that raised
    now_month,      \* datetime.datetime.now().month
    tool_result,    \* value returned by the last tool function call
    tool_call       \* history: the last tool called and the month it read

clientVars == <<pc, event, logged_in, session_state, widgets, errors, exc,
                clock, response, made_ids, last_create, turn>>
agentVars == <<apc, agents, log, load_exc, ctor_raised, now_month, tool_result,
              tool_call>>
vars == <<pc, event, logged_in, session_state, widgets, errors, exc,
          clock, response, made_ids, last_create, turn,
          apc, agents, log, load_exc, ctor_raised, now_month, tool_result, tool_call>>

---------------------------------------------------------------------------
(* Bounds of the model *)

MaxTurns == 2         \* chat inputs submitted
MaxClock == 2         \* last clock tick
TicksPerSecond == 2   \* clock resolution: ticks per whole second
MaxEvents == 2        \* length of the event list returned by /run

---------------------------------------------------------------------------
(* Python values *)

None == <<>>
Some(x) == <<x>>
EmptyDict == [k \in {} |-> <<>>]

\* d.get(k, default)
Get(d, k, default) == IF k \in DOMAIN d THEN d[k] ELSE default

\* d[k] = v on a dict
SetItem(d, k, v) == [x \in (DOMAIN d) \cup {k} |-> IF x = k THEN v ELSE d[x]]

\* truthiness of an optional str: None and "" are falsy
Truthy(opt) == opt # None /\ opt[1] # <<>>

\* `fragment in text`, for a fragment the texts below keep whole
Contains(text, fragment) == \E i \in 1..Len(text) : text[i] = fragment

\* the warning sign the client prefixes to every error turn (U+26A0 U+FE0F)
WarnSign == "(!) "


---------------------------------------------------------------------------
(* src/diet-app.py : constants and the server's possible answers *)

\* f"session-{int(time.time())}": the timestamp truncated to whole seconds
SessionId(now) == <<"session-", ToString(now \div TicksPerSecond)>>

\* f"{st.user.email}-{uuid.uuid4()}"
NewUserId == <<"user@example.com", "-", "uuid4">>

NoEvent == [widget |-> "none", text |-> <<>>]
UserTexts == {<<"hi">>}

\* exceptions of requests, with their base classes
ExcReadTimeout ==
    [name |-> "ReadTimeout", str |-> <<"Read timed out.">>, status |-> 0,
     mro |-> {"ReadTimeout", "Timeout", "RequestException", "OSError", "Exception"}]
ExcConnectTimeout ==
    [name |-> "ConnectTimeout", str |-> <<"Connect timed out.">>, status |-> 0,
     mro |-> {"ConnectTimeout", "ConnectionError", "Timeout", "RequestException",
              "OSError", "Exception"}]
ExcConnection ==
    [name |-> "ConnectionError", str |-> <<"Connection refused">>, status |-> 0,
     mro |-> {"ConnectionError", "RequestException", "OSError", "Exception"}]
\* raised by response.raise_for_status()
ExcHTTPError(status) ==
    [name |-> "HTTPError", str |-> <<ToString(status), " Error">>, status |-> status,
     mro |-> {"HTTPError", "RequestException", "OSError", "Exception"}]
\* raised by response.json() on a body that is not JSON
ExcJSONDecode ==
    [name |-> "JSONDecodeError", str |-> <<"Expecting value">>, status |-> 0,
     mro |-> {"JSONDecodeError", "InvalidJSONError", "RequestException", "OSError",
              "ValueError", "Exception"}]
\* raised by the event scan itself
ExcIndexError ==
    [name |-> "IndexError", str |-> <<"list index out of range">>, status |-> 0,
     mro |-> {"IndexError", "LookupError", "Exception"}]
NoExc == [name |-> "", str |-> <<>>, status |-> 0, mro |-> {}]

\* response.reason of a status
Reason(status) ==
    CASE status = 200 -> <<"OK">>
      [] status = 400 -> <<"Bad Request">>
      [] status = 404 -> <<"Not Found">>
      [] status = 500 -> <<"Internal Server Error">>
      [] status = 503 -> <<"Service Unavailable">>
      [] OTHER -> <<"Unknown">>

\* events of the /run response, as the JSON objects the client reads
TextPart(t) == [text |-> t]
CallPart == [functionCall |-> <<"get_current_season">>]
ModelEvent(parts) == [content |-> [role |-> "model", parts |-> parts]]
EvModelA == ModelEvent(<<TextPart(<<"A">>)>>)
EvModelB == ModelEvent(<<TextPart(<<"B">>)>>)
EvModelEmptyText == ModelEvent(<<TextPart(<<>>)>>)
EvModelCall == ModelEvent(<<CallPart>>)
EvModelNoParts == ModelEvent(<<>>)
EvModelPartsMissing == [content |-> [role |-> "model"]]
EvUserText == [content |-> [role |-> "user", parts |-> <<TextPart(<<"A">>)>>]]
EvNoContent == [author |-> "agent"]
EventKinds == {EvModelA, EvModelB, EvModelEmptyText, EvModelCall, EvModelNoParts,
               EvModelPartsMissing, EvUserText, EvNoContent}

RECURSIVE SeqsUpTo(_, _)
SeqsUpTo(S, n) ==
    IF n = 0 THEN {<<>>}
    ELSE LET shorter == SeqsUpTo(S, n - 1)
         IN  shorter \cup {Append(s, x) : s \in {t \in shorter : Len(t) = n - 1}, x \in S}
EventLists == SeqsUpTo(EventKinds, MaxEvents)

NoBody == [json |-> "none", events |-> <<>>]
Responded(status, body) ==
    [kind |-> "response", status |-> status, body |-> body, exc |-> NoExc]
Raised(e) == [kind |-> "raised", status |-> 0, body |-> NoBody, exc |-> e]

\* what requests.post(f"{API_BASE_URL}/run", ..., timeout=600) can end in
RunStatuses == {500, 503}
RunOutcomes ==
    {Responded(200, [json |-> "list", events |-> evs]) : evs \in EventLists}
    \cup {Responded(200, [json |-> "malformed", events |-> <<>>])}
    \cup {Responded(s, NoBody) : s \in RunStatuses}
    \cup {Raised(ExcReadTimeout), Raised(ExcConnectTimeout), Raised(ExcConnection)}

\* what the session-creation POST can end in (it has no timeout and no try)
CreateStatuses == {200, 400, 500}
CreateBodies == {<<"Session already exists">>, <<>>}
CreateOutcomes ==
    {Responded(s, [json |-> "text", events |-> b]) : s \in CreateStatuses, b \in CreateBodies}
    \cup {Raised(ExcConnection)}

---------------------------------------------------------------------------
(* src/diet-app.py : create_session *)

\* a create_session that stores the new identifier whatever the status
create_session_AssignsAlways(state, now, out) ==
    LET session_id == SessionId(now)
        stored == SetItem(SetItem(state, "session_id", session_id), "messages", <<>>)
    IN  IF out.kind = "raised"
        THEN [sid |-> session_id, ret |-> None, state |-> state, errors |-> <<>>,
              exc |-> out.exc.name]
        ELSE IF out.status = 200
        THEN [sid |-> session_id, ret |-> Some(TRUE), state |-> stored,
              errors |-> <<>>, exc |-> ""]
        ELSE [sid |-> session_id, ret |-> Some(FALSE), state |-> stored,
              errors |-> << <<"Failed to create session: ">> \o out.body.events >>,
              exc |-> ""]

create_session(state, now, out) ==
    LET session_id == SessionId(now)
    IN  IF out.kind = "raised"
        THEN [sid |-> session_id, ret |-> None, state |-> state, errors |-> <<>>,
              exc |-> out.exc.name]
        ELSE IF out.status = 200
        THEN [sid |-> session_id, ret |-> Some(TRUE),
              state |-> SetItem(SetItem(state, "session_id", session_id), "messages", <<>>),
              errors |-> <<>>, exc |-> ""]
        ELSE [sid |-> session_id, ret |-> Some(FALSE), state |-> state,
              errors |-> << <<"Failed to create session: ">> \o out.body.events >>,
              exc |-> ""]

---------------------------------------------------------------------------
(* src/diet-app.py : send_message, after the POST has returned *)

\* the loop of lines 180-183 from event i on; a raised exception ends it
RECURSIVE ScanEvents(_, _, _)
ScanEvents(events, i, assistant_message) ==
    IF i > Len(events) THEN [exc |-> NoExc, assistant_message |-> assistant_message]
    ELSE LET ev == events[i]
             content == Get(ev, "content", EmptyDict)
             isModel == Get(content, "role", "") = "model"
             parts == Get(content, "parts", <<EmptyDict>>)
         IN  IF ~isModel THEN ScanEvents(events, i + 1, assistant_message)
             ELSE IF Len(parts) = 0
                  THEN [exc |-> ExcIndexError, assistant_message |-> assistant_message]
             ELSE IF "text" \in DOMAIN parts[1]
                  THEN ScanEvents(events, i + 1, Some(parts[1].text))
             ELSE ScanEvents(events, i + 1, assistant_message)

\* lines 156-183: the try body up to the end of the scan
TryBody(out) ==
    IF out.kind = "raised" THEN [exc |-> out.exc, assistant_message |-> None]
    ELSE IF out.status >= 400 /\ out.status < 600
         THEN [exc |-> ExcHTTPError(out.status), assistant_message |-> None]
    ELSE IF out.body.json = "malformed"
         THEN [exc |-> ExcJSONDecode, assistant_message |-> None]
    ELSE ScanEvents(out.body.events, 1, None)

\* the clauses without the final `except Exception`
ExceptClauses_NoCatchAll == <<"HTTPError", "Timeout", "ConnectionError", "JSONDecodeError">>

\* the clauses with ConnectionError tried before Timeout
ExceptClauses_ConnectionFirst ==
    <<"HTTPError", "ConnectionError", "Timeout", "JSONDecodeError", "Exception">>

\* the except clauses of lines 200-237, in their order
ExceptClauses == <<"HTTPError", "Timeout", "ConnectionError", "JSONDecodeError", "Exception">>

\* the first clause that catches e ("" when none does)
Handler(e) ==
    LET hits == {i \in 1..Len(ExceptClauses) : ExceptClauses[i] \in e.mro}
    IN  IF hits = {} THEN ""
        ELSE ExceptClauses[CHOOSE i \in hits : \A j \in hits : i <= j]

\* error_msg of each except clause
ErrorMsg(clause, e) ==
    CASE clause = "HTTPError" ->
            IF e.status = 503
            THEN <<"The model is currently overloaded.", " Please try again in a few moments.">>
            ELSE <<"API Error: ", ToString(e.status), " - ">> \o Reason(e.status)
      [] clause = "Timeout" -> <<"Request ", "timed out", ". The server might be busy.">>
      [] clause = "ConnectionError" ->
            <<"Connection error", ". Please check if the API server is running.">>
      [] clause = "JSONDecodeError" -> <<"Invalid response format from the server.">>
      [] OTHER -> <<"Unexpected error: ">> \o e.str

NoResponseMsg == <<"No response received from the model.">>

\* lines 172-237: what send_message does with the outcome of the POST:
\* the assistant message it appends (none if the exception escapes), what it
\* returns, the st.error it shows and the path it took
send_message(out) ==
    LET t == TryBody(out)
        clause == Handler(t.exc)
    IN  IF t.exc = NoExc
        THEN IF Truthy(t.assistant_message)
             THEN [path |-> "text", appended |-> <<t.assistant_message[1]>>,
                   ret |-> Some(TRUE), errors |-> <<>>, exc |-> ""]
             ELSE [path |-> "no_text", appended |-> << <<WarnSign>> \o NoResponseMsg >>,
                   ret |-> Some(FALSE), errors |-> <<>>, exc |-> ""]
        ELSE IF clause = ""
             THEN [path |-> "uncaught", appended |-> <<>>, ret |-> None, errors |-> <<>>,
                   exc |-> t.exc.name]
        ELSE [path |-> clause, appended |-> << <<WarnSign>> \o ErrorMsg(clause, t.exc) >>,
              ret |-> Some(FALSE), errors |-> <<ErrorMsg(clause, t.exc)>>, exc |-> ""]

---------------------------------------------------------------------------
(* src/diet-app.py : the script, one run per browser event *)

NoCreate == [called |-> FALSE, origin |-> "", status |-> 0, body |-> <<>>, ret |-> None,
             sid |-> <<>>, fresh |-> TRUE, before |-> EmptyDict, after |-> EmptyDict]
NoTurn == [called |-> FALSE, done |-> FALSE, posts |-> 0, before |-> <<>>, sid |-> <<>>,
           text |-> <<>>, raised |-> "", path |-> "", ret |-> None]

HasSession == "session_id" \in DOMAIN session_state
Messages == Get(session_state, "messages", <<>>)

\* a run started by the user resets what the previous run showed
BeginRun(ev) ==
    /\ pc' = "auth"
    /\ event' = ev
    /\ widgets' = {}
    /\ errors' = <<>>
    /\ exc' = ""
    /\ response' = None
    /\ last_create' = NoCreate
    /\ turn' = NoTurn

\* the browser opens the page
PageLoad ==
    /\ pc = "start"
    /\ BeginRun(NoEvent)
    /\ UNCHANGED <<logged_in, session_state, clock, made_ids>>

\* line 62: st.login, then Streamlit runs the script in a new session
ClickLogin ==
    /\ pc = "wait"
    /\ "login" \in widgets
    /\ logged_in' = TRUE
    /\ session_state' = EmptyDict
    /\ BeginRun(NoEvent)
    /\ UNCHANGED <<clock, made_ids>>

\* line 101: st.logout, then Streamlit runs the script in a new session
ClickLogout ==
    /\ pc = "wait"
    /\ "logout" \in widgets
    /\ logged_in' = FALSE
    /\ session_state' = EmptyDict
    /\ BeginRun(NoEvent)
    /\ UNCHANGED <<clock, made_ids>>

\* lines 270, 276: the user clicks the session button the last run rendered
ClickSessionButton ==
    /\ pc = "wait"
    /\ \E w \in widgets \cap {"new_session", "create_session"} :
          BeginRun([widget |-> w, text |-> <<>>])
    /\ UNCHANGED <<logged_in, session_state, clock, made_ids>>

\* line 320: the user submits a non-empty text in the chat input
SubmitChat ==
    /\ pc = "wait"
    /\ "chat_input" \in widgets
    /\ Len(Messages) + 2 <= 2 * MaxTurns
    /\ \E text \in UserTexts : BeginRun([widget |-> "chat_input", text |-> text])
    /\ UNCHANGED <<logged_in, session_state, clock, made_ids>>

\* time passes; the script reads the clock at most once per run
Tick ==
    /\ pc = "wait"
    /\ clock < MaxClock
    /\ clock' = clock + 1
    /\ UNCHANGED <<pc, event, logged_in, session_state, widgets, errors, exc,
                   response, made_ids, last_create, turn>>

\* lines 95-101
AuthGate ==
    /\ pc = "auth"
    /\ IF ~logged_in
       THEN /\ widgets' = widgets \cup {"login"}
            /\ pc' = "wait"
       ELSE /\ widgets' = widgets \cup {"logout"}
            /\ pc' = "init_user"
    /\ UNCHANGED <<event, logged_in, session_state, errors, exc, clock, response,
                   made_ids, last_create, turn>>

\* lines 104-105
InitUser ==
    /\ pc = "init_user"
    /\ session_state' = IF "user_id" \in DOMAIN session_state THEN session_state
                        ELSE SetItem(session_state, "user_id", NewUserId)
    /\ pc' = "init_session"
    /\ UNCHANGED <<event, logged_in, widgets, errors, exc, clock, response,
                   made_ids, last_create, turn>>

\* `if create_session(): st.rerun()` at origin, with the widgets rendered so
\* far; the run goes on at next_pc when create_session returns False
CreateAndRerun(out, origin, rendered, next_pc) ==
    LET r == create_session(session_state, clock, out)
    IN  /\ made_ids' = made_ids \cup {r.sid}
        /\ last_create' = [called |-> TRUE, origin |-> origin, status |-> out.status,
                           body |-> out.body.events, ret |-> r.ret, sid |-> r.sid,
                           fresh |-> r.sid \notin made_ids,
                           before |-> session_state, after |-> r.state]
        /\ session_state' = r.state
        /\ IF r.exc # ""
           THEN \* the exception of requests.post ends the run
                /\ exc' = r.exc
                /\ pc' = "wait"
                /\ widgets' = rendered
                /\ errors' = errors
                /\ UNCHANGED event
           ELSE IF r.ret = Some(TRUE)
           THEN \* st.rerun(): the script starts over, with no widget input
                /\ pc' = "auth"
                /\ event' = NoEvent
                /\ widgets' = {}
                /\ errors' = <<>>
                /\ UNCHANGED exc
           ELSE /\ pc' = next_pc
                /\ widgets' = rendered
                /\ errors' = errors \o r.errors
                /\ UNCHANGED <<event, exc>>

\* lines 107-111
InitSession ==
    /\ pc = "init_session"
    /\ IF ~HasSession
       THEN \E out \in CreateOutcomes : CreateAndRerun(out, "auto", widgets, "init_rest")
       ELSE /\ pc' = "init_rest"
            /\ UNCHANGED <<event, session_state, widgets, errors, exc, made_ids,
                           last_create>>
    /\ UNCHANGED <<logged_in, clock, response, turn>>

\* lines 113-117
InitRest ==
    /\ pc = "init_rest"
    /\ LET withMessages == IF "messages" \in DOMAIN session_state THEN session_state
                           ELSE SetItem(session_state, "messages", <<>>)
       IN  session_state' = IF "clipboard" \in DOMAIN withMessages THEN withMessages
                            ELSE SetItem(withMessages, "clipboard", <<>>)
    /\ pc' = "sidebar"
    /\ UNCHANGED <<event, logged_in, widgets, errors, exc, clock, response,
                   made_ids, last_create, turn>>

\* lines 265-282; st.session_state.session_id raises AttributeError when the
\* key was never set
Sidebar ==
    /\ pc = "sidebar"
    /\ IF ~HasSession
       THEN /\ exc' = "AttributeError"
            /\ pc' = "wait"
            /\ UNCHANGED <<event, session_state, widgets, errors, made_ids, last_create>>
       ELSE LET button == IF session_state.session_id # <<>> THEN "new_session"
                          ELSE "create_session"
                rendered == widgets \cup {button}
            IN  IF event.widget = button
                THEN \E out \in CreateOutcomes : CreateAndRerun(out, button, rendered, "chat")
                ELSE /\ widgets' = rendered
                     /\ pc' = "chat"
                     /\ UNCHANGED <<event, session_state, errors, exc, made_ids,
                                    last_create>>
    /\ UNCHANGED <<logged_in, clock, response, turn>>

\* lines 284-326, with lines 142-169 of send_message: up to the POST /run
Chat ==
    /\ pc = "chat"
    /\ IF session_state.session_id # <<>>
       THEN IF event.widget = "chat_input" /\ event.text # <<>>
            THEN \* send_message(user_input); its first check cannot fail here
                 /\ session_state' =
                       [session_state EXCEPT !.messages =
                           Append(@, [role |-> "user", content |-> event.text])]
                 /\ turn' = [called |-> TRUE, done |-> FALSE, posts |-> turn.posts + 1,
                             before |-> session_state.messages,
                             sid |-> session_state.session_id, text |-> event.text,
                             raised |-> "", path |-> "", ret |-> None]
                 /\ widgets' = widgets \cup {"chat_input"}
                 /\ pc' = "awaiting"
            ELSE /\ widgets' = widgets \cup {"chat_input"}
                 /\ pc' = "wait"
                 /\ UNCHANGED <<session_state, turn>>
       ELSE /\ widgets' = widgets \cup {"info"}
            /\ pc' = "wait"
            /\ UNCHANGED <<session_state, turn>>
    /\ UNCHANGED <<event, logged_in, errors, exc, clock, response, made_ids, last_create>>

\* line 156: requests.post returns or raises, within its timeout
RunReturns ==
    /\ pc = "awaiting"
    /\ \E out \in RunOutcomes : response' = Some(out)
    /\ pc' = "processing"
    /\ UNCHANGED <<event, logged_in, session_state, widgets, errors, exc, clock,
                   made_ids, last_create, turn>>

\* lines 172-237 and 323-324: the rest of send_message, then `st.rerun()`
\* when it returned True
FinishTurn ==
    /\ pc = "processing"
    /\ LET r == send_message(response[1])
       IN  /\ session_state' =
                 [session_state EXCEPT !.messages =
                     @ \o [i \in 1..Len(r.appended) |->
                              [role |-> "assistant", content |-> r.appended[i]]]]
           /\ turn' = [turn EXCEPT !.done = TRUE, !.raised = response[1].exc.name,
                                   !.path = r.path, !.ret = r.ret]
           /\ response' = None
           /\ IF r.ret = Some(TRUE)
              THEN /\ pc' = "auth"
                   /\ event' = NoEvent
                   /\ widgets' = {}
                   /\ errors' = <<>>
                   /\ UNCHANGED exc
              ELSE /\ pc' = "wait"
                   /\ errors' = errors \o r.errors
                   /\ exc' = r.exc
                   /\ UNCHANGED <<event, widgets>>
    /\ UNCHANGED <<logged_in, clock, made_ids, last_create>>

ClientInit ==
    /\ pc = "start"
    /\ event = NoEvent
    /\ logged_in \in BOOLEAN
    /\ session_state = EmptyDict
    /\ widgets = {}
    /\ errors = <<>>
    /\ exc = ""
    /\ clock = 0
    /\ response = None
    /\ made_ids = {}
    /\ last_create = NoCreate
    /\ turn = NoTurn

---------------------------------------------------------------------------
(* src/agent.py : tool functions *)

\* a get_current_season whose ranges start one month late
get_current_season_LateStart(month) ==
    IF 3 < month /\ month <= 5 THEN "Spring"
    ELSE IF 6 < month /\ month <= 8 THEN "Summer"
    ELSE IF 9 < month /\ month <= 11 THEN "Autumn"
    ELSE "Winter"

get_current_season(month) ==
    IF 3 <= month /\ month <= 5 THEN "Spring"
    ELSE IF 6 <= month /\ month <= 8 THEN "Summer"
    ELSE IF 9 <= month /\ month <= 11 THEN "Autumn"
    ELSE "Winter"

say_goodbye == "Goodbye! Have a great day."

---------------------------------------------------------------------------
(* src/agent.py : the agents, as the keyword arguments of their constructors *)

CallbackSlots == {"before_agent_callback", "after_agent_callback",
                  "before_model_callback", "after_model_callback",
                  "before_tool_callback", "after_tool_callback"}

\* opik_tracer.<method>: a bound method of the one telemetry sink of line 30
TracerMethod(method) == <<"opik_tracer", method>>

FunctionTool(f) == [kind |-> "function", name |-> f]
\* agent_tool.AgentTool(agent=...) of the module global `global`
AgentTool(global) == [kind |-> "agent", name |-> global]

\* the five callbacks every agent from Agent_Search to formatter_agent passes
FiveCallbacks ==
    [after_agent_callback |-> Some(TracerMethod("after_agent_callback")),
     before_model_callback |-> Some(TracerMethod("before_model_callback")),
     after_model_callback |-> Some(TracerMethod("after_model_callback")),
     before_tool_callback |-> Some(TracerMethod("before_tool_callback")),
     after_tool_callback |-> Some(TracerMethod("after_tool_callback"))]

SearchTools == <<AgentTool("Agent_Search"), FunctionTool("get_current_season"),
                 FunctionTool("get_current_month_day")>>

\* a tool list that wraps formatter_agent twice and farewell_agent never
RootTools_FormatterTwice ==
    <<AgentTool("interview_agent"), AgentTool("grocery_promo_scout"),
      AgentTool("diet_writer_agent"), AgentTool("grocery_shopper"),
      AgentTool("formatter_agent"), AgentTool("formatter_agent")>>

\* lines 211-218: the tools of personalized_diet_agent
RootTools ==
    <<AgentTool("interview_agent"), AgentTool("grocery_promo_scout"),
      AgentTool("diet_writer_agent"), AgentTool("grocery_shopper"),
      AgentTool("formatter_agent"), AgentTool("farewell_agent")>>

\* the keyword arguments each constructor call passes
Kwargs(global) ==
    CASE global = "interview_agent" ->
            [name |-> "interview_agent", model |-> "gemini-2.0-flash-001",
             tools |-> <<FunctionTool("interview")>>, output_key |-> Some("user_profile")]
      [] global = "farewell_agent" ->
            [name |-> "farewell_agent", model |-> "gemini-2.0-flash-001",
             tools |-> <<FunctionTool("say_goodbye")>>]
      [] global = "Agent_Search" ->
            [name |-> "SearchAgent", model |-> "gemini-2.0-flash-exp",
             tools |-> <<FunctionTool("google_search")>>] @@ FiveCallbacks
      [] global = "diet_writer_agent" ->
            [name |-> "Dietwriter", model |-> "gemini-2.0-flash-001",
             tools |-> SearchTools, output_key |-> Some("generated_diet")] @@ FiveCallbacks
      [] global = "grocery_promo_scout" ->
            [name |-> "GroceryPromoScout", model |-> "gemini-2.0-flash-001",
             tools |-> SearchTools, output_key |-> Some("generated_promos")] @@ FiveCallbacks
      [] global = "grocery_shopper" ->
            [name |-> "GroceryShopper", model |-> "gemini-2.0-flash-001",
             tools |-> SearchTools, output_key |-> Some("generated_diet")] @@ FiveCallbacks
      [] global = "formatter_agent" ->
            [name |-> "MarkdownFormatter", model |-> "gemini-2.0-flash-001",
             output_key |-> Some("final_diet_plan")] @@ FiveCallbacks
      [] global = "personalized_diet_agent" ->
            [name |-> "personalized_diet_agent", model |-> "gemini-2.0-flash-001",
             tools |-> RootTools,
             before_agent_callback |-> Some(TracerMethod("before_agent_callback"))]
            @@ FiveCallbacks

\* the agent a constructor returns: an argument not passed keeps its default
NewAgent(kw) ==
    [name |-> kw.name,
     model |-> kw.model,
     tools |-> Get(kw, "tools", <<>>),
     output_key |-> Get(kw, "output_key", None),
     callbacks |-> [slot \in CallbackSlots |-> Get(kw, slot, None)]]

\* the module globals defined at each position of the top-level code, in order
LoadOrder == <<"interview_agent", "farewell_agent", "Agent_Search", "diet_writer_agent",
               "grocery_promo_scout", "grocery_shopper", "formatter_agent",
               "personalized_diet_agent">>
GuardedAgents == {"interview_agent", "farewell_agent"}

\* the AgentTool wrappers of a constructor call read each wrapped agent's
\* name: a wrapped global that is None raises AttributeError
WrapsNone(kw, globals) ==
    \E i \in 1..Len(Get(kw, "tools", <<>>)) :
        /\ kw.tools[i].kind = "agent"
        /\ globals[kw.tools[i].name] = None

\* lines 108-109, 127-128: the except clause of a guard. Its print formats
\* {<global>.model}, and the global still holds what line 92 / 112 gave it
GuardHandler(global, globals) ==
    IF globals[global] = None
    THEN [exc |-> "AttributeError", line |-> <<>>]
    ELSE [exc |-> "", line |-> <<"Could not create ", global>>]

---------------------------------------------------------------------------
(* src/agent.py : the top-level code, one step per definition *)

NoLoadExc == [type |-> "", at |-> ""]

\* lines 92-109, 112-128: a guarded construction
GuardedConstruction(global, raises) ==
    LET assigned == SetItem(agents, global, None)       \* <global> = None
    IN  IF ~raises
        THEN LET agent == NewAgent(Kwargs(global))
             IN  /\ agents' = SetItem(assigned, global, Some(agent))
                 /\ log' = Append(log, <<"Agent created ", agent.name, agent.model>>)
                 /\ apc' = apc + 1
                 /\ UNCHANGED <<load_exc, ctor_raised>>
        ELSE LET h == GuardHandler(global, assigned)
             IN  /\ agents' = assigned
                 /\ ctor_raised' = ctor_raised \cup {global}
                 /\ IF h.exc # ""
                    THEN /\ load_exc' = [type |-> h.exc, at |-> global]
                         /\ apc' = 0
                         /\ UNCHANGED log
                    ELSE /\ log' = Append(log, h.line)
                         /\ apc' = apc + 1
                         /\ UNCHANGED load_exc

\* lines 130-226: a construction outside any try
PlainConstruction(global, raises) ==
    /\ IF raises \/ WrapsNone(Kwargs(global), agents)
       THEN /\ load_exc' = [type |-> IF raises THEN "Exception" ELSE "AttributeError",
                            at |-> global]
            /\ apc' = 0
            /\ UNCHANGED agents
       ELSE /\ agents' = SetItem(agents, global, Some(NewAgent(Kwargs(global))))
            /\ apc' = apc + 1
            /\ UNCHANGED load_exc
    /\ UNCHANGED <<log, ctor_raised>>

\* the next definition of the module is executed; its constructor returns or raises
Construct ==
    /\ apc \in 1..Len(LoadOrder)
    /\ \E raises \in BOOLEAN :
          IF LoadOrder[apc] \in GuardedAgents
          THEN GuardedConstruction(LoadOrder[apc], raises)
          ELSE PlainConstruction(LoadOrder[apc], raises)
    /\ UNCHANGED <<now_month, tool_result, tool_call>>

\* line 230
AssignRoot ==
    /\ apc = Len(LoadOrder) + 1
    /\ agents' = SetItem(agents, "root_agent", agents["personalized_diet_agent"])
    /\ apc' = apc + 1
    /\ UNCHANGED <<log, load_exc, ctor_raised, now_month, tool_result, tool_call>>

\* apc is 0 once an exception has escaped the top-level code
Loaded == apc = Len(LoadOrder) + 2

\* lines 74-90: the runtime calls the tool
CallGetCurrentSeason ==
    /\ Loaded
    /\ tool_result' = get_current_season(now_month)
    /\ tool_call' = [tool |-> "get_current_season", month |-> now_month]
    /\ UNCHANGED <<apc, agents, log, load_exc, ctor_raised, now_month>>

\* lines 55-58
CallSayGoodbye ==
    /\ Loaded
    /\ tool_result' = say_goodbye
    /\ tool_call' = [tool |-> "say_goodbye", month |-> now_month]
    /\ UNCHANGED <<apc, agents, log, load_exc, ctor_raised, now_month>>

\* the calendar month changes
MonthPasses ==
    /\ now_month' = (now_month % 12) + 1
    /\ UNCHANGED <<apc, agents, log, load_exc, ctor_raised, tool_result, tool_call>>

AgentInit ==
    /\ apc = 1
    /\ agents = EmptyDict
    /\ log = <<>>
    /\ load_exc = NoLoadExc
    /\ ctor_raised = {}
    /\ now_month \in 1..12
    /\ tool_result = ""
    /\ tool_call = [tool |-> "", month |-> now_month]

---------------------------------------------------------------------------
(* Specifications *)

\* the chat client, beside an agent module that is not being loaded
Init == ClientInit /\ AgentInit /\ now_month = 1
Next ==
    \/ PageLoad /\ UNCHANGED agentVars
    \/ ClickLogin /\ UNCHANGED agentVars
    \/ ClickLogout /\ UNCHANGED agentVars
    \/ ClickSessionButton /\ UNCHANGED agentVars
    \/ SubmitChat /\ UNCHANGED agentVars
    \/ Tick /\ UNCHANGED agentVars
    \/ AuthGate /\ UNCHANGED agentVars
    \/ InitUser /\ UNCHANGED agentVars
    \/ InitSession /\ UNCHANGED agentVars
    \/ InitRest /\ UNCHANGED agentVars
    \/ Sidebar /\ UNCHANGED agentVars
    \/ Chat /\ UNCHANGED agentVars
    \/ RunReturns /\ UNCHANGED agentVars
    \/ FinishTurn /\ UNCHANGED agentVars
Spec == Init /\ [][Next]_vars

\* requests.post is given timeout=600: the call of line 156 always ends
FairSpec == Spec /\ WF_vars(RunReturns /\ UNCHANGED agentVars)
                 /\ WF_vars(FinishTurn /\ UNCHANGED agentVars)

\* the import of the agent module, beside a client that has not started
AgentLoadInit == AgentInit /\ ClientInit /\ logged_in = FALSE
AgentLoadNext ==
    \/ Construct /\ UNCHANGED clientVars
    \/ AssignRoot /\ UNCHANGED clientVars
    \/ CallGetCurrentSeason /\ UNCHANGED clientVars
    \/ CallSayGoodbye /\ UNCHANGED clientVars
    \/ MonthPasses /\ UNCHANGED clientVars
AgentSpec == AgentLoadInit /\ [][AgentLoadNext]_vars

---------------------------------------------------------------------------
(* Claims about the chat client *)

UserMessage(text) == [role |-> "user", content |-> text]
AssistantMessage(text) == [role |-> "assistant", content |-> text]

\* the create_session call of this run was answered with a status other than 200
CreateFailed == last_create.called /\ last_create.status \notin {0, 200}

\* C1: when the server answers the session-creation POST with a status other
\* than 200, create_session returns False without raising, shows
\* "Failed to create session: <body>" as an error, and leaves st.session_state
\* as it was: session_id is not assigned the new identifier and messages is
\* not cleared.
C1_FailedCreateLeavesSessionUnset ==
    CreateFailed =>
        /\ last_create.ret = Some(FALSE)
        /\ last_create.after = last_create.before
        /\ Get(session_state, "session_id", None) = Get(last_create.before, "session_id", None)
        /\ Get(last_create.before, "messages", <<>>) = Get(last_create.after, "messages", <<>>)
        /\ \E i \in 1..Len(errors) :
              errors[i] = <<"Failed to create session: ">> \o last_create.body

\* a New Session click was answered 500 while the log held messages
C1_Witness ==
    /\ CreateFailed
    /\ last_create.origin = "new_session"
    /\ last_create.status = 500
    /\ Len(Get(last_create.before, "messages", <<>>)) > 0
    /\ pc = "wait"

\* C2: every turn submitted in an active session appends exactly one user
\* message and then, whatever the POST to /run ends in, exactly one assistant
\* message; the run never ends in an exception, every outcome that arrives is
\* one send_message handles by returning, and the session identifier is the
\* one the turn started with.
C2_EveryTurnAppendsUserThenAssistant ==
    turn.called =>
        /\ HasSession
        /\ session_state.session_id = turn.sid
        /\ exc = ""
        /\ IF ~turn.done
           THEN /\ pc \in {"awaiting", "processing"}
                /\ Messages = Append(turn.before, UserMessage(turn.text))
                /\ pc = "processing" =>
                      /\ send_message(response[1]).ret # None
                      /\ Len(send_message(response[1]).appended) = 1
           ELSE /\ pc \notin {"awaiting", "processing"}
                /\ turn.ret # None
                /\ Len(Messages) = Len(turn.before) + 2
                /\ SubSeq(Messages, 1, Len(turn.before) + 1)
                      = Append(turn.before, UserMessage(turn.text))
                /\ Messages[Len(Messages)].role = "assistant"

\* supplement to C2, under FairSpec: a request in flight ends and its turn
\* is completed
C2_AwaitingEnds == (pc = "awaiting") ~> (turn.done /\ pc \notin {"awaiting", "processing"})

\* a second turn of a session ended in the catch-all clause
C2_Witness ==
    /\ turn.done
    /\ turn.path = "Exception"
    /\ Len(turn.before) = 2
    /\ pc = "wait"

\* C4: when the POST to /run times out (read or connect timeout),
\* send_message appends exactly one assistant message, whose content contains
\* "timed out", returns False, the run ends without a rerun, and the turn has
\* issued exactly one POST.
C4_TimeoutReportedOnce ==
    (turn.done /\ turn.raised \in {"ReadTimeout", "ConnectTimeout"}) =>
        /\ Len(Messages) = Len(turn.before) + 2
        /\ SubSeq(Messages, 1, Len(turn.before) + 1)
              = Append(turn.before, UserMessage(turn.text))
        /\ Messages[Len(Messages)].role = "assistant"
        /\ Contains(Messages[Len(Messages)].content, "timed out")
        /\ turn.ret = Some(FALSE)
        /\ turn.posts = 1
        /\ pc = "wait"

\* a turn whose POST ended in a connect timeout
C4_Witness ==
    /\ turn.done
    /\ turn.raised = "ConnectTimeout"
    /\ pc = "wait"

\* C3 as claimed: after the automatic session creation fails with a non-200
\* status, the run ends with no session, no exception, and the Create Session
\* button on the page.
C3_FailedCreateOffersCreateButton ==
    (pc = "wait" /\ CreateFailed /\ last_create.origin = "auto") =>
        /\ ~HasSession
        /\ exc = ""
        /\ "create_session" \in widgets

\* C7 as claimed: a New Session action never generates an identifier that
\* create_session has generated before.
C7_SessionIdsNeverReused ==
    (last_create.called /\ last_create.origin = "new_session") => last_create.fresh

\* the claims' reading of an event list: the model-role events, and those
\* whose first part carries a non-empty text
IsModelEvent(ev) ==
    "content" \in DOMAIN ev /\ "role" \in DOMAIN ev.content /\ ev.content.role = "model"
HasModelText(ev) ==
    /\ IsModelEvent(ev)
    /\ "parts" \in DOMAIN ev.content
    /\ Len(ev.content.parts) > 0
    /\ "text" \in DOMAIN ev.content.parts[1]
    /\ ev.content.parts[1].text # <<>>
ListAnswer(out) == out.kind = "response" /\ out.status = 200 /\ out.body.json = "list"

\* the step in which send_message handles the outcome `response[1]`
HandlesOutcome == pc = "processing" /\ pc' # "processing"
Recorded == Messages'[Len(Messages')]

\* C5 as claimed: an event list with a model-role event but no model-role
\* event with text is answered by the "No response received" warning and False.
C5_NoModelTextReported ==
    [][(/\ HandlesOutcome
        /\ ListAnswer(response[1])
        /\ \E i \in 1..Len(response[1].body.events) : IsModelEvent(response[1].body.events[i])
        /\ \A i \in 1..Len(response[1].body.events) : ~HasModelText(response[1].body.events[i]))
       => (/\ Messages' = Append(Messages,
                 AssistantMessage(<<WarnSign, "No response received from the model.">>))
           /\ turn'.ret = Some(FALSE))]_vars

\* C6 as claimed: the recorded assistant message is the text of the last
\* event with model role and a text in its first part, whatever follows it.
C6_LastModelTextRecorded ==
    [][(/\ HandlesOutcome
        /\ ListAnswer(response[1])
        /\ \E i \in 1..Len(response[1].body.events) : HasModelText(response[1].body.events[i]))
       => LET evs == response[1].body.events
              last == CHOOSE i \in 1..Len(evs) :
                         /\ HasModelText(evs[i])
                         /\ \A j \in (i + 1)..Len(evs) : ~HasModelText(evs[j])
          IN  Messages' = Append(Messages, AssistantMessage(evs[last].content.parts[1].text))]_vars

\* the warning the claim assigns to each kind of failure (<<>> for a success)
ClaimedWarning(out) ==
    IF out.kind = "raised"
    THEN IF "Timeout" \in out.exc.mro
         THEN <<"Request ", "timed out", ". The server might be busy.">>
         ELSE <<"Connection error", ". Please check if the API server is running.">>
    ELSE IF out.status = 503
    THEN <<"The model is currently overloaded.", " Please try again in a few moments.">>
    ELSE IF out.status # 200
    THEN <<"API Error: ", ToString(out.status), " - ">> \o Reason(out.status)
    ELSE IF out.body.json = "malformed"
    THEN <<"Invalid response format from the server.">>
    ELSE IF \A i \in 1..Len(out.body.events) : ~HasModelText(out.body.events[i])
    THEN <<"No response received from the model.">>
    ELSE <<>>

\* C8 as claimed: each kind of failure of the turn is reported with its own
\* warning, and with no other kind's.
C8_EachFailureItsOwnWarning ==
    [][(HandlesOutcome /\ ClaimedWarning(response[1]) # <<>>)
       => Recorded = AssistantMessage(<<WarnSign>> \o ClaimedWarning(response[1]))]_vars

---------------------------------------------------------------------------
(* Claims about the agent module *)

\* C9 as claimed: when the construction of a guarded agent raises, the guard
\* logs the failure, the global stays None and no exception leaves the guard.
C9_GuardContainsFailure ==
    \A g \in ctor_raised :
        /\ agents[g] = None
        /\ load_exc.at # g
        /\ \E i \in 1..Len(log) : log[i] = <<"Could not create ", g>>

\* C10 as claimed: every constructed agent has each of its six callback slots
\* set to the method of that name of opik_tracer.
C10_AllSixCallbacksEverywhere ==
    \A g \in DOMAIN agents :
        agents[g] # None =>
            \A slot \in CallbackSlots : agents[g][1].callbacks[slot] = Some(TracerMethod(slot))

---------------------------------------------------------------------------
(* Claims about the delegation tree *)

LeafAgents == {"interview_agent", "farewell_agent", "Agent_Search", "diet_writer_agent",
               "grocery_promo_scout", "grocery_shopper", "formatter_agent"}

\* the agent the global g holds, once the composite has been constructed
AgentOf(g) == agents[g][1]
RootBuilt == "personalized_diet_agent" \in DOMAIN agents
             /\ agents["personalized_diet_agent"] # None

\* how often the tool list wraps the global g, and the globals it wraps
TimesWrapped(tools, g) == Cardinality({i \in 1..Len(tools) : tools[i] = AgentTool(g)})
WrappedBy(tools) == {tools[i].name : i \in {j \in 1..Len(tools) : tools[j].kind = "agent"}}

\* C11 as claimed: the composite wraps each of the seven leaf agents exactly
\* once, and no leaf agent has an agent among its own tools.
C11_SevenLeavesOneLevel ==
    RootBuilt =>
        /\ \A g \in LeafAgents : TimesWrapped(AgentOf("personalized_diet_agent").tools, g) = 1
        /\ \A g \in LeafAgents : WrappedBy(AgentOf(g).tools) = {}

\* C11 as amended: the composite wraps exactly the six agents interview_agent,
\* farewell_agent, diet_writer_agent, grocery_promo_scout, grocery_shopper
\* and formatter_agent, each once, and every one of them has been
\* constructed; Agent_Search is not a tool of the composite but is wrapped,
\* once, by each of diet_writer_agent, grocery_promo_scout and
\* grocery_shopper, so the tree is two levels deep there; Agent_Search,
\* interview_agent, farewell_agent and formatter_agent wrap no agent.
C11_SixLeavesSearchBelow ==
    RootBuilt =>
        LET root == AgentOf("personalized_diet_agent").tools
            searchers == {"diet_writer_agent", "grocery_promo_scout", "grocery_shopper"}
        IN  /\ WrappedBy(root) = LeafAgents \ {"Agent_Search"}
            /\ Len(root) = Cardinality(LeafAgents \ {"Agent_Search"})
            /\ \A g \in LeafAgents \ {"Agent_Search"} : TimesWrapped(root, g) = 1
            /\ \A g \in LeafAgents : g \in DOMAIN agents /\ agents[g] # None
            /\ \A g \in searchers :
                  /\ WrappedBy(AgentOf(g).tools) = {"Agent_Search"}
                  /\ TimesWrapped(AgentOf(g).tools, "Agent_Search") = 1
            /\ \A g \in LeafAgents \ searchers : WrappedBy(AgentOf(g).tools) = {}

\* the module has been imported to its end and root_agent is the composite
C11_Witness ==
    /\ Loaded
    /\ RootBuilt
    /\ agents["root_agent"] = agents["personalized_diet_agent"]

---------------------------------------------------------------------------
(* Claims about the tool functions *)

\* C12: for the month m in 1..12 that get_current_season reads, it returns
\* "Spring" iff m is 3, 4 or 5, "Summer" iff m is 6, 7 or 8, "Autumn" iff m is
\* 9, 10 or 11, and "Winter" iff m is 12, 1 or 2; the result is one of these
\* four strings.
C12_SeasonOfMonth ==
    tool_call.tool = "get_current_season" =>
        /\ tool_call.month \in 1..12
        /\ tool_result \in {"Spring", "Summer", "Autumn", "Winter"}
        /\ (tool_result = "Spring") <=> (tool_call.month \in {3, 4, 5})
        /\ (tool_result = "Summer") <=> (tool_call.month \in {6, 7, 8})
        /\ (tool_result = "Autumn") <=> (tool_call.month \in {9, 10, 11})
        /\ (tool_result = "Winter") <=> (tool_call.month \in {12, 1, 2})

\* the tool was called in December, and the month has changed since
C12_Witness ==
    /\ tool_call.tool = "get_current_season"
    /\ tool_call.month = 12
    /\ tool_result = "Winter"
    /\ now_month = 1

============================================================================
